---- MODULE Spec2Model ----
(***************************************************************************)
(* Model of DeadLinkChecker (checker.py): the crawl engine scan/scan_page, *)
(* the per-page ThreadPoolExecutor of check_link calls, and                *)
(* generate_report.                                                        *)
(*                                                                         *)
(* URLs are tokens; the site's content and the network's answers are the   *)
(* environment: what a page holds is chosen when the page is fetched (a    *)
(* page is fetched at most once per session, so the choice is a link       *)
(* graph), and what a request answers is chosen when the request is made.  *)
(* The fields response_time and checked_at of a result are left out.       *)
(***************************************************************************)
EXTENDS Integers, Sequences, FiniteSets, TLC

\* ---------------------------------------------------------------- bounds
MaxLinks == 2
MaxSeeds == 2
MaxDepth == 1
MaxWorkers == 2
MaxResults == 4
MaxUrlTail == 5

\* ------------------------------------------------------------------ URLs
InternalUrls == {"A", "B", "C"}
ExternalUrls == {"X"}
Urls == InternalUrls \cup ExternalUrls

\* source_page = None
None == "None"

\* urlparse(base_url).netloc
domain == "site"

\* urlparse(url).netloc: the external URL is on a subdomain of the base
netloc(url) == IF url \in InternalUrls THEN "site" ELSE "sub.site"

is_same_domain_or_sub(url) == netloc(url) \in {domain, "sub.site"}

\* lines 147-149
is_same_domain(url) == netloc(url) = domain

\* ---------------------------------------------------------- environment
RECURSIVE SeqsUpTo(_, _)
SeqsUpTo(S, n) ==
    IF n = 0 THEN {<<>>}
    ELSE LET shorter == SeqsUpTo(S, n - 1)
         IN shorter \cup {Append(s, x) : s \in {t \in shorter : Len(t) = n - 1}, x \in S}

\* The internal pages are interchangeable, so they are named in the order in
\* which the crawl meets them: "A" is the first seed, and a URL list names
\* an internal page that is new to the session only if it is the next one.
InternalOrder == <<"A", "B", "C">>

NextNew(known) ==
    LET new == {i \in DOMAIN InternalOrder : InternalOrder[i] \notin known}
    IN IF new = {} THEN "none"
       ELSE InternalOrder[CHOOSE i \in new : \A j \in new : i <= j]

RECURSIVE InOrder(_, _)
InOrder(known, l) ==
    IF l = <<>> THEN TRUE
    ELSE /\ Head(l) \in known \cup ExternalUrls \cup {NextNew(known)}
         /\ InOrder(known \cup {Head(l)}, Tail(l))

\* line 145 returning the links parsed before the failure
ExtractOutcomesPartial(room, known) ==
    {[ok |-> b, links |-> l] :
        b \in BOOLEAN, l \in {m \in SeqsUpTo(Urls, room) : InOrder(known, m)}}

\* what extract_links can return for a page: the eligible links of the page in
\* document order (duplicates kept), or [] after a failed fetch or parse.
\* The site holds at most MaxLinks links in all; room is what is left of them.
ExtractOutcomes(room, known) ==
    {[ok |-> TRUE, links |-> l] :
        l \in {m \in SeqsUpTo(Urls, room) : InOrder(known, m)}}
        \cup {[ok |-> FALSE, links |-> <<>>]}

NoExc == "none"

Statuses == {200, 400, 404, 405}

\* exceptions of the transport, with the classes each is an instance of
ExcClasses ==
    [ReadTimeout      |-> {"Timeout"},
     ConnectTimeout   |-> {"ConnectionError", "Timeout"},
     ConnectionError  |-> {"ConnectionError"},
     TooManyRedirects |-> {}]

Exceptions == DOMAIN ExcClasses

\* str(e) of the exceptions that are neither a Timeout nor a ConnectionError
StrOf(e) == IF e = "TooManyRedirects" THEN "Exceeded 30 redirects." ELSE e

\* what one request (HEAD or GET) can end in: a response or an exception
Responses ==
    {[exc |-> NoExc, status |-> s] : s \in Statuses}
        \cup {[exc |-> e, status |-> 0] : e \in Exceptions}

NoResponse == [exc |-> NoExc, status |-> 0]

Ok == [exc |-> NoExc, status |-> 200]

NotFound == [exc |-> NoExc, status |-> 404]

\* the network of the crawls of Spec: a request ends in a 200 or in a 404
CrawlNetwork == {Ok, NotFound}

\* ------------------------------------------------------------ check_link
NoError == "none"

\* the exception that leaves the try block: of the HEAD, or of the GET that
\* is sent after a 405
Raised(head, get) ==
    IF head.exc # NoExc THEN head.exc
    ELSE IF head.status = 405 THEN get.exc
    ELSE NoExc

FinalResponseOfHead(head, get) == head

\* the response whose status_code is read at line 79
FinalResponse(head, get) == IF head.status = 405 THEN get ELSE head

ErrorOfSwapped(e) ==
    IF "ConnectionError" \in ExcClasses[e] THEN "Connection Error"
    ELSE IF "Timeout" \in ExcClasses[e] THEN "Timeout"
    ELSE StrOf(e)

\* the except clauses in their order: Timeout, ConnectionError, Exception
ErrorOf(e) ==
    IF "Timeout" \in ExcClasses[e] THEN "Timeout"
    ELSE IF "ConnectionError" \in ExcClasses[e] THEN "Connection Error"
    ELSE StrOf(e)

IsBrokenAbove(status_code) == status_code > 400

\* line 86
IsBroken(status_code) == status_code >= 400

check_link(url, source_page, head, get) ==
    LET e == Raised(head, get)
    IN IF e = NoExc
       THEN [url         |-> url,
             status_code |-> FinalResponse(head, get).status,
             source_page |-> source_page,
             is_broken   |-> IsBroken(FinalResponse(head, get).status),
             error       |-> NoError]
       ELSE [url         |-> url,
             status_code |-> 0,
             source_page |-> source_page,
             is_broken   |-> TRUE,
             error       |-> ErrorOf(e)]

NoResult ==
    [url |-> None, status_code |-> 0, source_page |-> None,
     is_broken |-> FALSE, error |-> NoError]

\* ----------------------------------------------------------------- state
VARIABLES
    max_depth,      \* self.max_depth
    max_workers,    \* self.max_workers
    network,        \* what a request can end in during this session
    urls_to_scan,   \* the seeds of scan(), as far as its loop has come
    visited_urls,   \* self.visited_urls
    broken_links,   \* self.broken_links
    valid_links,    \* self.valid_links
    link_map,       \* self.link_map
    pc,             \* where main() is: "scan", "shutdown", "done"
    stack,          \* the scan_page calls in progress, innermost last
    futures,        \* the futures of the executor of the innermost call
    interrupted,    \* KeyboardInterrupt was raised in main()
    reports,        \* what generate_report returned, if it was called
    extracted,      \* history: the extract_links calls, in order
    dispatched,     \* history: the executor.submit calls, in order
    appended,       \* history: the appends to broken_links / valid_links
    raw_url,        \* the string the URL utilities are called with
    calls           \* history: the calls of normalize_url and is_valid_url

vars ==
    <<max_depth, max_workers, network, urls_to_scan, visited_urls, broken_links,
      valid_links, link_map, pc, stack, futures, interrupted,
      reports, extracted, dispatched, appended, raw_url, calls>>

utils == <<raw_url, calls>>
config == <<max_depth, max_workers, network, urls_to_scan, utils>>
results == <<broken_links, valid_links, appended>>
session == <<visited_urls, link_map, extracted, dispatched>>

Range(s) == {s[i] : i \in 1..Len(s)}

\* lines 26-29: the session of a new DeadLinkChecker, before scan
NewSession ==
    /\ urls_to_scan = <<>>
    /\ visited_urls = {}
    /\ broken_links = <<>>
    /\ valid_links = <<>>
    /\ link_map = <<>>
    /\ pc = "scan"
    /\ stack = <<>>
    /\ futures = <<>>
    /\ interrupted = FALSE
    /\ reports = <<>>
    /\ extracted = <<>>
    /\ dispatched = <<>>
    /\ appended = <<>>
    /\ raw_url = <<>>
    /\ calls = <<>>

Init ==
    /\ max_depth \in -1..MaxDepth
    /\ max_workers \in 1..MaxWorkers
    /\ network = CrawlNetwork
    /\ NewSession

\* ------------------------------------------------------------- scan_page
Top == stack[Len(stack)]

Pop == SubSeq(stack, 1, Len(stack) - 1)

Frame(url, depth, source_page) ==
    [url |-> url, depth |-> depth, source_page |-> source_page,
     pc |-> "entry", internal_links |-> <<>>, idx |-> 1]

\* the number of links the pages fetched so far held
RECURSIVE LinksServed(_)
LinksServed(log) ==
    IF log = <<>> THEN 0 ELSE Len(Head(log).links) + LinksServed(Tail(log))

DepthExceededOffByOne(depth) == depth > max_depth + 1

\* the URLs the session has met: the seeds and the links of the pages fetched
KnownUrls(seeds, log) ==
    Range(seeds) \cup UNION {Range(log[i].links) : i \in DOMAIN log}

\* line 153
DepthExceeded(depth) == depth > max_depth

AlreadyVisitedNever(url) == FALSE

\* line 156
AlreadyVisited(url) == url \in visited_urls

RECURSIVE TrackLinksAlways(_, _, _)
TrackLinksAlways(map, url, links) ==
    IF links = <<>> THEN map
    ELSE LET link == Head(links)
             m1 == IF link \in DOMAIN map THEN map
                   ELSE [l \in DOMAIN map \cup {link} |->
                            IF l = link THEN <<>> ELSE map[l]]
         IN TrackLinksAlways([m1 EXCEPT ![link] = Append(@, url)], url,
                             Tail(links))

\* lines 167-171
RECURSIVE TrackLinks(_, _, _)
TrackLinks(map, url, links) ==
    IF links = <<>> THEN map
    ELSE LET link == Head(links)
             m1 == IF link \in DOMAIN map THEN map
                   ELSE [l \in DOMAIN map \cup {link} |->
                            IF l = link THEN <<>> ELSE map[l]]
             m2 == IF url \in Range(m1[link]) THEN m1
                   ELSE [m1 EXCEPT ![link] = Append(@, url)]
         IN TrackLinks(m2, url, Tail(links))

RECURSIVE LinksToCheckUnvisited(_, _)
LinksToCheckUnvisited(links, visited) ==
    IF links = <<>> THEN <<>>
    ELSE IF Head(links) \notin visited
         THEN <<Head(links)>> \o LinksToCheckUnvisited(Tail(links), visited)
         ELSE LinksToCheckUnvisited(Tail(links), visited)

\* lines 177-186: the links to check and the internal links of a page
RECURSIVE LinksToCheck(_, _)
LinksToCheck(links, visited) ==
    IF links = <<>> THEN <<>>
    ELSE LET link == Head(links)
             rest == LinksToCheck(Tail(links), visited)
         IN IF ~is_same_domain(link) THEN <<link>> \o rest
            ELSE IF link \notin visited THEN <<link>> \o rest
            ELSE rest

InternalLinks(links) == SelectSeq(links, is_same_domain)

\* line 191: the source_page argument of check_link
SourceArg(source_page, url) == IF source_page # None THEN source_page ELSE url

\* lines 190-193
Submit(links_to_check, source_page, url) ==
    [i \in 1..Len(links_to_check) |->
        [url    |-> links_to_check[i],
         source |-> SourceArg(source_page, url),
         page   |-> url,
         state  |-> "queued",
         head   |-> NoResponse,
         get    |-> NoResponse,
         result |-> NoResult]]

InScanPage(at) == pc = "scan" /\ stack # <<>> /\ Top.pc = at

\* line 153-154
ScanPageTooDeep ==
    /\ InScanPage("entry")
    /\ DepthExceeded(Top.depth)
    /\ stack' = Pop
    /\ UNCHANGED <<config, session, results, pc, futures,
                   interrupted, reports>>

\* lines 156-157
ScanPageVisited ==
    /\ InScanPage("entry")
    /\ ~DepthExceeded(Top.depth)
    /\ AlreadyVisited(Top.url)
    /\ stack' = Pop
    /\ UNCHANGED <<config, session, results, pc, futures,
                   interrupted, reports>>

\* lines 159-193: mark visited, extract, record provenance, partition, submit
ScanPageExtract ==
    /\ InScanPage("entry")
    /\ ~DepthExceeded(Top.depth)
    /\ ~AlreadyVisited(Top.url)
    /\ \E x \in ExtractOutcomes(MaxLinks - LinksServed(extracted),
                                 KnownUrls(urls_to_scan, extracted)) :
        LET url == Top.url
            visited == visited_urls \cup {url}
            check == LinksToCheck(x.links, visited)
        IN /\ visited_urls' = visited
           /\ extracted' = Append(extracted,
                  [url |-> url, depth |-> Top.depth, links |-> x.links, ok |-> x.ok])
           /\ link_map' = TrackLinks(link_map, url, x.links)
           /\ futures' = Submit(check, Top.source_page, url)
           /\ dispatched' = dispatched \o
                  [i \in 1..Len(check) |-> [page |-> url, url |-> check[i]]]
           /\ stack' = [stack EXCEPT ![Len(stack)] =
                  [@ EXCEPT !.pc = "collect",
                            !.internal_links = InternalLinks(x.links)]]
    /\ UNCHANGED <<config, results, pc, interrupted, reports>>

\* ---------------------------------------------------- the executor's pool
Running(fs) == {i \in DOMAIN fs : fs[i].state = "running"}

Queued(fs) == {i \in DOMAIN fs : fs[i].state = "queued"}

WorkerFreeOffByOne(fs) == Cardinality(Running(fs)) < max_workers - 1

\* a worker thread exists for each submitted item up to max_workers
WorkerFree(fs) == Cardinality(Running(fs)) < max_workers

\* a free worker takes the oldest queued work item and sends the HEAD
WorkerStart ==
    /\ pc \in {"scan", "shutdown"}
    /\ Queued(futures) # {}
    /\ WorkerFree(futures)
    /\ LET i == CHOOSE j \in Queued(futures) : \A k \in Queued(futures) : j <= k
       IN futures' = [futures EXCEPT ![i].state = "running"]
    /\ UNCHANGED <<config, session, results, pc, stack,
                   interrupted, reports>>

\* lines 68-120: the HEAD, and the GET after a 405, end; check_link returns
WorkerFinish ==
    /\ pc \in {"scan", "shutdown"}
    /\ \E i \in Running(futures) :
        \E head \in network :
        \E get \in IF head.status = 405 THEN network ELSE {NoResponse} :
            futures' = [futures EXCEPT ![i] =
                [futures[i] EXCEPT
                    !.state = "done",
                    !.head = head,
                    !.get = get,
                    !.result = check_link(futures[i].url, futures[i].source,
                                          head, get)]]
    /\ UNCHANGED <<config, session, results, pc, stack,
                   interrupted, reports>>

AddResultFirst(list, result) == <<result>> \o list

\* lines 199, 202
AddResult(list, result) == Append(list, result)

\* lines 195-202: as_completed yields a finished future; its result is
\* appended to broken_links or to valid_links
Collect ==
    /\ InScanPage("collect")
    /\ \E i \in DOMAIN futures :
        /\ futures[i].state = "done"
        /\ LET result == futures[i].result
           IN IF result.is_broken
              THEN /\ broken_links' = AddResult(broken_links, result)
                   /\ valid_links' = valid_links
              ELSE /\ valid_links' = AddResult(valid_links, result)
                   /\ broken_links' = broken_links
        /\ appended' = Append(appended,
               [page |-> futures[i].page, url |-> futures[i].url])
        /\ futures' = [futures EXCEPT ![i] =
               [futures[i] EXCEPT !.state = "collected",
                                  !.head = NoResponse,
                                  !.get = NoResponse]]
    /\ UNCHANGED <<config, session, pc, stack, interrupted, reports>>

DrainedAtFirst(fs) ==
    fs = <<>> \/ \E i \in DOMAIN fs : fs[i].state = "collected"

\* as_completed(futures) is exhausted
Drained(fs) == \A i \in DOMAIN fs : fs[i].state = "collected"

\* lines 195, 203: the loop over as_completed ends and the with block exits
PoolExit ==
    /\ InScanPage("collect")
    /\ Drained(futures)
    /\ futures' = <<>>
    /\ stack' = [stack EXCEPT ![Len(stack)].pc = "recurse"]
    /\ UNCHANGED <<config, session, results, pc, interrupted, reports>>

\* ------------------------------------------------------------- recursion
\* line 205
MayRecurse(depth) == depth < max_depth

\* line 207
Unvisited(link) == link \notin visited_urls

\* lines 206-207: the positions of the loop, from idx on, that make a call
Candidates(frame) ==
    {j \in frame.idx..Len(frame.internal_links) :
        Unvisited(frame.internal_links[j])}

\* line 208
RecurseCall ==
    /\ InScanPage("recurse")
    /\ MayRecurse(Top.depth)
    /\ Candidates(Top) # {}
    /\ LET j == CHOOSE k \in Candidates(Top) : \A m \in Candidates(Top) : k <= m
       IN stack' = Append([stack EXCEPT ![Len(stack)].idx = j + 1],
                          Frame(Top.internal_links[j], Top.depth + 1, Top.url))
    /\ UNCHANGED <<config, session, results, pc, futures,
                   interrupted, reports>>

\* the end of scan_page
ScanPageReturn ==
    /\ InScanPage("recurse")
    /\ ~MayRecurse(Top.depth) \/ Candidates(Top) = {}
    /\ stack' = Pop
    /\ UNCHANGED <<config, session, results, pc, futures,
                   interrupted, reports>>

\* ------------------------------------------------------- generate_report
Round2Down(n, d) == (n * 10000) \div d

\* round(x, 2) of x = 100 * n / d, in hundredths (ties to even)
Round2(n, d) ==
    LET q == (n * 10000) \div d
        r == (n * 10000) % d
    IN IF 2 * r < d THEN q
       ELSE IF 2 * r > d THEN q + 1
       ELSE IF q % 2 = 0 THEN q ELSE q + 1

\* lines 232-235
BrokenByStatus(broken) ==
    [s \in {broken[i].status_code : i \in DOMAIN broken} |->
        Cardinality({i \in DOMAIN broken : broken[i].status_code = s})]

\* line 227
TotalLinks(broken, valid) == Len(broken) + Len(valid)

\* lines 225-248; broken_percentage is in hundredths of a percent
generate_report ==
    LET total_links == TotalLinks(broken_links, valid_links)
        broken_count == Len(broken_links)
        valid_count == Len(valid_links)
    IN [total_pages_scanned |-> Cardinality(visited_urls),
        total_links_checked |-> total_links,
        broken_links_count  |-> broken_count,
        valid_links_count   |-> valid_count,
        broken_percentage   |-> IF total_links > 0
                                THEN Round2(broken_count, total_links)
                                ELSE 0,
        broken_by_status    |-> BrokenByStatus(broken_links),
        broken_links        |-> broken_links,
        valid_links         |-> valid_links]

\* ------------------------------------------------------------------ scan
\* the seeds the loop of scan can come to next: the base URL or the first of
\* --pages, an internal page, then any URL, up to MaxSeeds in all
NextSeeds(seeds, known) ==
    IF seeds = <<>> THEN {InternalOrder[1]}
    ELSE IF Len(seeds) >= MaxSeeds THEN {}
    ELSE {url \in Urls : InOrder(known, <<url>>)}

\* lines 222-223: the next seed is scanned. The seeds do not depend on the
\* crawl, so the list is drawn seed by seed as the loop reaches it.
ScanNext ==
    /\ pc = "scan"
    /\ stack = <<>>
    /\ \E url \in NextSeeds(urls_to_scan, KnownUrls(urls_to_scan, extracted)) :
        /\ urls_to_scan' = Append(urls_to_scan, url)
        /\ stack' = <<Frame(url, 0, None)>>
    /\ UNCHANGED <<max_depth, max_workers, network, utils, session, results,
                   pc, futures, interrupted, reports>>

\* scan returns to main, which calls print_summary and with it
\* generate_report (lines 310-311)
ScanReturn ==
    /\ pc = "scan"
    /\ stack = <<>>
    /\ urls_to_scan # <<>>
    /\ reports' = Append(reports, generate_report)
    /\ pc' = "done"
    /\ UNCHANGED <<config, session, results, stack, futures,
                   interrupted>>

\* ------------------------------------------------------------- interrupt
\* KeyboardInterrupt is raised in the main thread during scan. Inside the
\* with block the executor's __exit__ runs shutdown(wait=True) first;
\* elsewhere the exception reaches main's handler at once, which calls
\* print_summary (lines 318-320).
Interrupt ==
    /\ pc = "scan"
    /\ interrupted' = TRUE
    /\ IF stack # <<>> /\ Top.pc = "collect"
       THEN /\ pc' = "shutdown"
            /\ UNCHANGED <<stack, futures, reports>>
       ELSE /\ pc' = "done"
            /\ stack' = <<>>
            /\ futures' = <<>>
            /\ reports' = Append(reports, generate_report)
    /\ UNCHANGED <<config, session, results>>

\* shutdown(wait=True) returns: the work queue is empty and the workers
\* ended; the exception reaches main's handler (lines 318-320)
ShutdownDone ==
    /\ pc = "shutdown"
    /\ Queued(futures) = {}
    /\ Running(futures) = {}
    /\ pc' = "done"
    /\ stack' = <<>>
    /\ futures' = <<>>
    /\ reports' = Append(reports, generate_report)
    /\ UNCHANGED <<config, session, results, interrupted>>

\* ---------------------------------------------------------- specification
Next ==
    \/ ScanNext
    \/ ScanReturn
    \/ ScanPageTooDeep
    \/ ScanPageVisited
    \/ ScanPageExtract
    \/ WorkerStart
    \/ WorkerFinish
    \/ Collect
    \/ PoolExit
    \/ RecurseCall
    \/ ScanPageReturn
    \/ Interrupt
    \/ ShutdownDone

Spec == Init /\ [][Next]_vars

\* the crawls that no KeyboardInterrupt ends: the scheduler runs the main
\* thread and the workers, and every request ends (timeout=10). What a check
\* returns does not steer the crawl, so every check gets a 200 here; the
\* fetch of a page succeeds or fails as in Spec.
FairInit ==
    /\ max_depth \in -1..MaxDepth
    /\ max_workers \in 1..MaxWorkers
    /\ network = {Ok}
    /\ NewSession

MainStep ==
    \/ ScanNext
    \/ ScanReturn
    \/ ScanPageTooDeep
    \/ ScanPageVisited
    \/ ScanPageExtract
    \/ Collect
    \/ PoolExit
    \/ RecurseCall
    \/ ScanPageReturn

WorkerStep == WorkerStart \/ WorkerFinish

FairNext == MainStep \/ WorkerStep

FairSpec ==
    FairInit /\ [][FairNext]_vars /\ WF_vars(MainStep) /\ WF_vars(WorkerStep)

\* ------------------------------------- one page's checks, any network
\* scan() without --pages (line 215) and with max_depth = 0: the base URL is
\* the only page, and its links are checked on a network where a request can
\* end in every way
CheckInit ==
    /\ max_depth = 0
    /\ max_workers \in 1..MaxWorkers
    /\ network = Responses
    /\ NewSession

\* lines 215, 222-223
ScanBase ==
    /\ pc = "scan"
    /\ stack = <<>>
    /\ urls_to_scan = <<>>
    /\ urls_to_scan' = <<InternalOrder[1]>>
    /\ stack' = <<Frame(InternalOrder[1], 0, None)>>
    /\ UNCHANGED <<max_depth, max_workers, network, utils, session, results,
                   pc, futures, interrupted, reports>>

\* the steps of Next that such a crawl can take
CheckNext ==
    \/ ScanBase
    \/ ScanReturn
    \/ ScanPageExtract
    \/ WorkerStart
    \/ WorkerFinish
    \/ Collect
    \/ PoolExit
    \/ ScanPageReturn
    \/ Interrupt
    \/ ShutdownDone

CheckSpec == CheckInit /\ [][CheckNext]_vars

\* ------------------------------------------ generate_report on its own
\* results as check_link returns them, by the list the crawl puts them in
SampleResults ==
    {check_link("X", "A", head, NoResponse) :
        head \in {Ok, [exc |-> NoExc, status |-> 404],
                  [exc |-> "ReadTimeout", status |-> 0]}}

\* a session whose collections hold up to MaxResults results each
ReportInit ==
    /\ max_depth = 0
    /\ max_workers = 1
    /\ network = {Ok}
    /\ urls_to_scan = <<"A">>
    /\ visited_urls = {"A"}
    /\ broken_links \in SeqsUpTo({r \in SampleResults : r.is_broken}, MaxResults)
    /\ valid_links \in SeqsUpTo({r \in SampleResults : ~r.is_broken}, MaxResults)
    /\ link_map = <<>>
    /\ pc = "summary"
    /\ stack = <<>>
    /\ futures = <<>>
    /\ interrupted = FALSE
    /\ reports = <<>>
    /\ extracted = <<>>
    /\ dispatched = <<>>
    /\ appended = <<>>
    /\ raw_url = <<>>
    /\ calls = <<>>

\* print_summary (lines 269-271) calls generate_report
PrintSummary ==
    /\ pc = "summary"
    /\ reports' = Append(reports, generate_report)
    /\ pc' = "done"
    /\ UNCHANGED <<config, session, results, stack, futures,
                   interrupted>>

ReportNext == PrintSummary

ReportSpec == ReportInit /\ [][ReportNext]_vars

\* ------------------------------------- is_valid_url and normalize_url
\* Here a URL is the string itself: a sequence of characters.
Letters ==
    {"a", "c", "d", "e", "f", "h", "i", "j", "l", "m", "o", "p", "r", "s",
     "t", "v", "H", "T", "P"}

\* str.lower of a character
Lower(c) ==
    CASE c = "H" -> "h"
      [] c = "T" -> "t"
      [] c = "P" -> "p"
      [] OTHER -> c

\* urllib.parse.scheme_chars, as far as the characters used here go
scheme_chars == Letters \cup {"+", "-", "."}

\* str.find, counted from 1; 0 when c is not in s
Find(s, c) ==
    LET hits == {i \in DOMAIN s : s[i] = c}
    IN IF hits = {} THEN 0 ELSE CHOOSE i \in hits : \A j \in hits : i <= j

\* s.split(c)[0], and the rest of s.split(c, 1)
Before(s, c) == IF Find(s, c) = 0 THEN s ELSE SubSeq(s, 1, Find(s, c) - 1)

After(s, c) == IF Find(s, c) = 0 THEN <<>> ELSE SubSeq(s, Find(s, c) + 1, Len(s))

StartsWith(s, prefix) ==
    Len(prefix) <= Len(s) /\ SubSeq(s, 1, Len(prefix)) = prefix

EndsWith(s, c) == s # <<>> /\ s[Len(s)] = c

\* the call of urlparse at lines 38 and 61: urlsplit finds the scheme, the
\* netloc after "//", the fragment and the query; what is left is the path.
\* (No string here holds ";", "[" or "]", so params stay empty and no
\* ValueError is raised.)
urlparse(url) ==
    LET i == Find(url, ":")
        has_scheme ==
            /\ i > 1
            /\ url[1] \in Letters
            /\ \A k \in 1..(i - 1) : url[k] \in scheme_chars
        url1 == IF has_scheme THEN SubSeq(url, i + 1, Len(url)) ELSE url
        has_netloc == Len(url1) >= 2 /\ url1[1] = "/" /\ url1[2] = "/"
        delims == {k \in 3..Len(url1) : url1[k] \in {"/", "?", "#"}}
        delim == IF delims = {} THEN Len(url1) + 1
                 ELSE CHOOSE k \in delims : \A m \in delims : k <= m
        url2 == IF has_netloc THEN SubSeq(url1, delim, Len(url1)) ELSE url1
        url3 == Before(url2, "#")
    IN [scheme   |-> IF has_scheme
                     THEN [k \in 1..(i - 1) |-> Lower(url[k])]
                     ELSE <<>>,
        netloc   |-> IF has_netloc THEN SubSeq(url1, 3, delim - 1) ELSE <<>>,
        path     |-> Before(url3, "?"),
        query    |-> After(url3, "?"),
        fragment |-> After(url2, "#")]

HTTP == <<"h", "t", "t", "p">>
HTTPS == <<"h", "t", "t", "p", "s">>
MAILTO == <<"m", "a", "i", "l", "t", "o">>
TEL == <<"t", "e", "l">>
JAVASCRIPT == <<"j", "a", "v", "a", "s", "c", "r", "i", "p", "t">>
DATA == <<"d", "a", "t", "a">>
FTP == <<"f", "t", "p">>

HttpSchemesNoTls == {HTTP}

\* line 41
HttpSchemes == {HTTP, HTTPS}

\* line 45
SkippedSchemes == {MAILTO, TEL, JAVASCRIPT, DATA}

\* lines 36-52
is_valid_url(url) ==
    LET parsed == urlparse(url)
    IN IF parsed.scheme \notin HttpSchemes THEN FALSE
       ELSE IF parsed.scheme \in SkippedSchemes THEN FALSE
       ELSE IF StartsWith(url, <<"#">>) THEN FALSE
       ELSE TRUE

RStripOne(s, c) == IF EndsWith(s, c) THEN SubSeq(s, 1, Len(s) - 1) ELSE s

\* str.rstrip(c): every trailing c is removed
RECURSIVE RStrip(_, _)
RStrip(s, c) ==
    IF EndsWith(s, c) THEN RStrip(SubSeq(s, 1, Len(s) - 1), c) ELSE s

IsRootNever(path) == FALSE

\* line 61: urlparse(url).path != '/', negated
IsRoot(path) == path = <<"/">>

\* lines 54-64
normalize_url(url) ==
    LET url1 == IF "#" \in Range(url) THEN Before(url, "#") ELSE url
    IN IF EndsWith(url1, "/") /\ ~IsRoot(urlparse(url1).path)
       THEN RStrip(url1, "/")
       ELSE url1

\* how the strings begin, and the characters they go on with
UrlHeads ==
    {<<>>, <<"#">>,
     HTTP \o <<":", "/", "/", "h">>,
     HTTPS \o <<":", "/", "/", "h">>,
     <<"H", "T", "T", "P", ":", "/", "/", "h">>,
     MAILTO \o <<":">>, TEL \o <<":">>, JAVASCRIPT \o <<":">>, DATA \o <<":">>,
     FTP \o <<":", "/", "/", "h">>}

UrlTailChars == {"/", "#", "?", ":", "a"}

UrlStrings ==
    {head \o tail : head \in UrlHeads, tail \in SeqsUpTo(UrlTailChars, MaxUrlTail)}

MaxNormalize == 2

\* a string is handed to the utilities, as extract_links (lines 136-139) and
\* scan (line 213) and the tests do
UrlInit ==
    /\ max_depth = 0
    /\ max_workers = 1
    /\ network = {Ok}
    /\ urls_to_scan = <<>>
    /\ visited_urls = {}
    /\ broken_links = <<>>
    /\ valid_links = <<>>
    /\ link_map = <<>>
    /\ pc = "url"
    /\ stack = <<>>
    /\ futures = <<>>
    /\ interrupted = FALSE
    /\ reports = <<>>
    /\ extracted = <<>>
    /\ dispatched = <<>>
    /\ appended = <<>>
    /\ raw_url \in UrlStrings
    /\ calls = <<>>

\* the string at hand: the raw one, or what normalize_url made of it
Current == IF calls = <<>> THEN raw_url ELSE calls[Len(calls)].ret

\* normalize_url is called (line 137, line 213), also on its own result
CallNormalizeUrl ==
    /\ pc = "url"
    /\ Len(calls) < MaxNormalize
    /\ calls' = Append(calls,
           [fn |-> "normalize_url", arg |-> Current, ret |-> normalize_url(Current)])
    /\ UNCHANGED <<max_depth, max_workers, network, urls_to_scan, raw_url,
                   session, results, pc, stack, futures, interrupted, reports>>

\* is_valid_url is called (line 139)
CallIsValidUrl ==
    /\ pc = "url"
    /\ calls' = Append(calls,
           [fn |-> "is_valid_url", arg |-> Current, ret |-> is_valid_url(Current)])
    /\ pc' = "done"
    /\ UNCHANGED <<max_depth, max_workers, network, urls_to_scan, raw_url,
                   session, results, stack, futures, interrupted, reports>>

UrlNext == CallNormalizeUrl \/ CallIsValidUrl

UrlSpec == UrlInit /\ [][UrlNext]_vars

\* ---------------------------------------------------------------- claims
Finished == pc = "done" /\ ~interrupted

\* C1: extract_links is never called, and no URL is marked visited, by a
\* scan_page call whose depth exceeds max_depth: every extraction happened at
\* a depth <= max_depth, the visited URLs are exactly the extracted ones, and
\* a call that starts with depth > max_depth changes nothing of the session.
C1_DepthBound ==
    /\ [](/\ \A i \in DOMAIN extracted : extracted[i].depth <= max_depth
          /\ visited_urls = {extracted[i].url : i \in DOMAIN extracted})
    /\ [][InScanPage("entry") /\ Top.depth > max_depth
            => UNCHANGED <<session, results, futures>>]_vars

\* a finished crawl left an internal link of a page of depth max_depth
\* unextracted
C1_Witness ==
    /\ Finished
    /\ \E i \in DOMAIN extracted :
        /\ extracted[i].depth = max_depth
        /\ \E l \in Range(extracted[i].links) :
            is_same_domain(l) /\ l \notin visited_urls

\* C2: a scan_page call on a visited URL changes neither the session nor the
\* results and submits nothing; no URL is extracted twice, and visited_urls
\* only grows.
C2_VisitedNoOp ==
    /\ [](\A i, j \in DOMAIN extracted :
            extracted[i].url = extracted[j].url => i = j)
    /\ [][/\ visited_urls \subseteq visited_urls'
          /\ InScanPage("entry") /\ Top.url \in visited_urls
                => UNCHANGED <<session, results, futures>>]_vars

\* a finished crawl whose seeds name one page twice
C2_Witness ==
    /\ Finished
    /\ Len(extracted) = 1
    /\ Len(urls_to_scan) = 2
    /\ urls_to_scan[1] = urls_to_scan[2]

\* C3: under fair scheduling of the main thread and the workers, with every
\* extraction and every check returning, main gets past scan: the crawl ends,
\* whatever the link graph (cycles and self-links included).
C3_Termination == <>(pc = "done")

\* a finished crawl of a page that links to itself, or of two pages that link
\* to each other
C3_Witness ==
    /\ Finished
    /\ \E i, j \in DOMAIN extracted :
        /\ extracted[j].url \in Range(extracted[i].links)
        /\ extracted[i].url \in Range(extracted[j].links)

CountPage(log, page) == Cardinality({i \in DOMAIN log : log[i].page = page})

\* every check submitted for the page has had its result appended
Settled(page) ==
    /\ CountPage(appended, page) = CountPage(dispatched, page)
    /\ \A i \in DOMAIN futures :
        futures[i].page = page => futures[i].state = "collected"

OnStack == {stack[k].url : k \in DOMAIN stack}

\* C4: when a scan_page call is past its with block (it recurses, a child
\* call runs, or it has returned), every check it submitted has completed and
\* its result is in broken_links or valid_links: as many appends as submits
\* for the page, and each append went to exactly one of the two lists.
C4_JoinBarrier ==
    /\ \A k \in DOMAIN stack :
        (stack[k].pc = "recurse" \/ k < Len(stack)) => Settled(stack[k].url)
    /\ ~interrupted => \A page \in visited_urls \ OnStack : Settled(page)
    /\ Len(appended) = Len(broken_links) + Len(valid_links)

PagesOf(log, page) == SelectSeq(log, LAMBDA x : x.page = page)

\* a call past its with block whose two checks completed in the other order
C4_Witness ==
    /\ InScanPage("recurse")
    /\ Len(PagesOf(dispatched, Top.url)) = 2
    /\ PagesOf(appended, Top.url) # PagesOf(dispatched, Top.url)

IsPrefix(s, t) == Len(s) <= Len(t) /\ SubSeq(t, 1, Len(s)) = s

\* C5: every step leaves broken_links and valid_links as they were or with
\* results added at the end; a report holds the two lists as they are.
C5_AppendOnly ==
    /\ [][/\ IsPrefix(broken_links, broken_links')
          /\ IsPrefix(valid_links, valid_links')]_vars
    /\ [](\A i \in DOMAIN reports :
            /\ reports[i].broken_links = broken_links
            /\ reports[i].valid_links = valid_links)

\* an interrupted crawl that holds results of two pages, two in one list
C5_Witness ==
    /\ pc = "done"
    /\ interrupted
    /\ Len(broken_links) = 2 \/ Len(valid_links) = 2
    /\ \E i, j \in DOMAIN appended : appended[i].page # appended[j].page

Sentinel(r) == r.status_code = 0 /\ r.error # NoError

\* C6: broken_links holds the results with an HTTP status >= 400 and the
\* sentinel-0 results, valid_links the results with an HTTP status < 400;
\* every collected result is in the list of its kind, none is in both.
C6_Classification ==
    /\ \A r \in Range(broken_links) :
        r.is_broken /\ (r.status_code >= 400 \/ Sentinel(r))
    /\ \A r \in Range(valid_links) :
        ~r.is_broken /\ r.status_code \in 1..399 /\ r.error = NoError
    /\ Range(broken_links) \cap Range(valid_links) = {}
    /\ \A i \in DOMAIN futures :
        futures[i].state = "collected" =>
            LET r == futures[i].result
            IN IF r.status_code >= 400 \/ r.status_code = 0
               THEN r \in Range(broken_links)
               ELSE r \in Range(valid_links)

\* a valid result and a sentinel-0 result of the same page
C6_Witness ==
    /\ valid_links # <<>>
    /\ \E r \in Range(broken_links) : Sentinel(r)

Abs(x) == IF x < 0 THEN -x ELSE x

\* C7: a report's broken and valid counts are the lengths of the two lists
\* and add up to total_links_checked; broken_percentage is the hundredth
\* nearest to 100 * broken / total, and 0 when nothing was checked.
C7_Aggregation ==
    \A i \in DOMAIN reports :
        LET r == reports[i]
            t == r.total_links_checked
            b == r.broken_links_count
        IN /\ b = Len(broken_links)
           /\ r.valid_links_count = Len(valid_links)
           /\ b + r.valid_links_count = t
           /\ IF t > 0
              THEN 2 * Abs(r.broken_percentage * t - 10000 * b) <= t
              ELSE r.broken_percentage = 0

\* a report of two broken links among three: 66.67
C7_Witness ==
    \E i \in DOMAIN reports :
        /\ reports[i].total_links_checked = 3
        /\ reports[i].broken_links_count = 2
        /\ reports[i].broken_percentage = 6667

\* the pages extracted so far whose links hold the link, in extraction order
Referrers(link) ==
    LET hits == SelectSeq(extracted, LAMBDA x : link \in Range(x.links))
    IN [i \in DOMAIN hits |-> hits[i].url]

\* C8: link_map[L] is the sequence of the extracted pages that reference L,
\* each once, in the order of their extraction; a link no page references
\* has no entry.
C8_Provenance ==
    \A link \in Urls :
        IF Referrers(link) = <<>> THEN link \notin DOMAIN link_map
        ELSE link \in DOMAIN link_map /\ link_map[link] = Referrers(link)

\* two pages were extracted that reference the same link
C8_Witness == \E link \in DOMAIN link_map : Len(link_map[link]) = 2

\* C9: the source_page of every result is a page whose links held the
\* checked URL.
C9_SourceAttribution ==
    \A r \in Range(broken_links) \cup Range(valid_links) :
        r.url \in DOMAIN link_map /\ r.source_page \in Range(link_map[r.url])

\* C10: a check whose HEAD, or GET after a 405, raised returns a result with
\* status 0, is_broken and the reason of the failure: "Timeout" for a
\* timeout, "Connection Error" for a connection failure, another text for any
\* other exception; the sentinel results are broken results with a reason,
\* and a crawl that ends has a result for every check it submitted.
C10_FailuresAreData ==
    /\ \A i \in DOMAIN futures :
        LET f == futures[i]
            e == IF f.head.exc # NoExc THEN f.head.exc
                 ELSE IF f.head.status = 405 THEN f.get.exc ELSE NoExc
        IN f.state = "done" /\ e # NoExc =>
            /\ f.result.url = f.url
            /\ f.result.status_code = 0
            /\ f.result.is_broken
            /\ e \in {"ReadTimeout", "ConnectTimeout"} => f.result.error = "Timeout"
            /\ e = "ConnectionError" => f.result.error = "Connection Error"
            /\ e = "TooManyRedirects" =>
                f.result.error \notin {"Timeout", "Connection Error", NoError}
    /\ \A r \in Range(broken_links) \cup Range(valid_links) :
        r.status_code = 0 => r.is_broken /\ r.error # NoError
    /\ Finished => Len(appended) = Len(dispatched)

\* the GET after a 405 raised, and the sibling check of the page has its
\* result in a list
C10_Witness ==
    \E i, j \in DOMAIN futures :
        /\ futures[i].state = "done"
        /\ futures[i].head.status = 405
        /\ futures[i].get.exc # NoExc
        /\ futures[j].state = "collected"

\* C11: a page whose fetch or parse failed has no links, stays in
\* visited_urls, is the source of no provenance entry and of no check; the
\* crawl goes on after it: a crawl that ends has scanned every seed, and every
\* internal link of every page above max_depth.
C11_ExtractionFailureContained ==
    /\ \A i \in DOMAIN extracted :
        ~extracted[i].ok =>
            /\ extracted[i].links = <<>>
            /\ extracted[i].url \in visited_urls
            /\ CountPage(dispatched, extracted[i].url) = 0
            /\ \A l \in DOMAIN link_map :
                extracted[i].url \notin Range(link_map[l])
    /\ Finished /\ max_depth >= 0 => Range(urls_to_scan) \subseteq visited_urls
    /\ Finished =>
        \A i \in DOMAIN extracted :
            extracted[i].depth < max_depth =>
                \A l \in Range(InternalLinks(extracted[i].links)) :
                    l \in visited_urls

\* the fetch of a page failed, and its sibling was scanned after it
C11_Witness ==
    /\ Finished
    /\ \E i, j \in DOMAIN extracted :
        /\ i < j
        /\ ~extracted[i].ok
        /\ extracted[i].depth = 1
        /\ extracted[j].depth = 1

\* a check is started: a worker takes it from the queue and sends its HEAD
StartsCheck ==
    \E i \in DOMAIN futures \cap DOMAIN futures' :
        futures[i].state = "queued" /\ futures'[i].state = "running"

\* C12: once KeyboardInterrupt was raised, no step marks a page visited,
\* extracts a page, submits a check or starts a check.
C12_Cancellation ==
    [][interrupted =>
        /\ visited_urls' = visited_urls
        /\ extracted' = extracted
        /\ dispatched' = dispatched
        /\ ~StartsCheck]_vars

CallsOf(fn) == {i \in DOMAIN calls : calls[i].fn = fn}

SchemePrefix(scheme, slashes) == scheme \o <<":">> \o slashes

\* C13: is_valid_url returns False for a string that begins with "mailto:",
\* "tel:", "javascript:" or "data:" and for a string that begins with "#", and
\* True for a string that begins with "http://" or "https://".
C13_Eligibility ==
    \A i \in CallsOf("is_valid_url") :
        LET u == calls[i].arg
        IN /\ (\E scheme \in {MAILTO, TEL, JAVASCRIPT, DATA} :
                  StartsWith(u, SchemePrefix(scheme, <<>>))) => calls[i].ret = FALSE
           /\ StartsWith(u, <<"#">>) => calls[i].ret = FALSE
           /\ (\E scheme \in {HTTP, HTTPS} :
                  StartsWith(u, SchemePrefix(scheme, <<"/", "/">>))) => calls[i].ret = TRUE

\* an https URL with a port-like colon and a query was found eligible
C13_Witness ==
    \E i \in CallsOf("is_valid_url") :
        /\ calls[i].arg = raw_url
        /\ StartsWith(raw_url, SchemePrefix(HTTPS, <<"/", "/">>))
        /\ {":", "?"} \subseteq Range(SubSeq(raw_url, 7, Len(raw_url)))
        /\ calls[i].ret = TRUE

\* the argument of a normalize_url call without its fragment
Defragmented(i) == Before(calls[i].arg, "#")

\* C14: normalize_url returns its argument without the fragment and without
\* one trailing "/", unless the path is "/": the result has no "#", and it is
\* the defragmented argument less its last character when that is a "/" and
\* the path is not the root, the defragmented argument otherwise.
C14_StripsOneSlash ==
    \A i \in CallsOf("normalize_url") :
        LET u == Defragmented(i)
        IN /\ "#" \notin Range(calls[i].ret)
           /\ calls[i].ret =
                IF EndsWith(u, "/") /\ urlparse(u).path # <<"/">>
                THEN SubSeq(u, 1, Len(u) - 1)
                ELSE u

\* C14, amended: normalize_url returns its argument without the fragment and
\* without any of its trailing "/", unless the path is "/": the result has
\* no "#"; it is the defragmented argument when that does not end in "/" or
\* its path is the root; otherwise it is the defragmented argument less
\* all the "/" at its end.
C14_StripsTrailingSlashes ==
    \A i \in CallsOf("normalize_url") :
        LET u == Defragmented(i)
            ret == calls[i].ret
        IN /\ "#" \notin Range(ret)
           /\ IsPrefix(ret, u)
           /\ \A k \in (Len(ret) + 1)..Len(u) : u[k] = "/"
           /\ IF EndsWith(u, "/") /\ urlparse(u).path # <<"/">>
              THEN ~EndsWith(ret, "/")
              ELSE ret = u

\* a URL with a fragment lost two trailing slashes
C14_Witness ==
    \E i \in CallsOf("normalize_url") :
        /\ "#" \in Range(calls[i].arg)
        /\ Len(Defragmented(i)) - Len(calls[i].ret) = 2

\* C15: normalize_url applied to its own result returns that result.
C15_Idempotence ==
    \A i, j \in CallsOf("normalize_url") :
        j = i + 1 =>
            /\ calls[j].arg = calls[i].ret
            /\ calls[j].ret = calls[i].ret

\* an eligible URL with a query, two trailing slashes and two "#" was
\* normalized twice
C15_Witness ==
    /\ CallsOf("normalize_url") = {1, 2}
    /\ is_valid_url(raw_url)
    /\ "?" \in Range(Defragmented(1))
    /\ Len(Defragmented(1)) - Len(calls[1].ret) = 2
    /\ Cardinality({k \in DOMAIN raw_url : raw_url[k] = "#"}) = 2

\* visited_urls when the i-th extracted page partitions its links
VisitedAt(i) == {extracted[j].url : j \in 1..i}

C17_DomainScopedRecursion ==
    \A i \in DOMAIN extracted :
        /\ extracted[i].depth >= 1 => netloc(extracted[i].url) = domain
        /\ netloc(extracted[i].url) # domain =>
            /\ extracted[i].depth = 0
            /\ extracted[i].url \in Range(urls_to_scan)

\* the link of the base page to a page of the subdomain was checked and not
\* followed, its internal link was followed, and the page of the subdomain
\* was extracted as the second seed
C17_Witness ==
    /\ Finished
    /\ \E i, j, k \in DOMAIN extracted :
        /\ extracted[i].depth = 0
        /\ extracted[j].depth = 1
        /\ i < j /\ j < k
        /\ netloc(extracted[k].url) = "sub.site"
        /\ [page |-> extracted[i].url, url |-> extracted[k].url] \in Range(appended)

\* C18: a check sends a GET exactly when its HEAD was answered with 405;
\* then the result has the status of the GET's response and is broken when
\* that status is >= 400; after any other HEAD response the result has the
\* status of the HEAD's response.
C18_HeadGetFallback ==
    \A i \in DOMAIN futures :
        LET f == futures[i]
        IN f.state = "done" =>
            /\ f.get # NoResponse <=> (f.head.exc = NoExc /\ f.head.status = 405)
            /\ f.head.status = 405 /\ f.get.exc = NoExc =>
                /\ f.result.status_code = f.get.status
                /\ f.result.is_broken <=> f.get.status >= 400
            /\ f.head.exc = NoExc /\ f.head.status # 405 =>
                /\ f.result.status_code = f.head.status
                /\ f.result.is_broken <=> f.head.status >= 400

\* after a 405 for the HEAD the GET was answered with 200, and the result is
\* a valid link with status 200
C18_Witness ==
    \E i \in DOMAIN futures :
        /\ futures[i].state = "done"
        /\ futures[i].head.status = 405
        /\ futures[i].get = Ok
        /\ futures[i].result.status_code = 200
        /\ ~futures[i].result.is_broken

Occurrences(log, page, url) ==
    Cardinality({k \in DOMAIN log : log[k] = [page |-> page, url |-> url]})

\* C19: for every page and every link, scanning the page submits at most one
\* check of the link and appends at most one result for it.
C19_PerPageDedup ==
    \A page \in Urls, url \in Urls :
        /\ Occurrences(dispatched, page, url) <= 1
        /\ Occurrences(appended, page, url) <= 1

\* the seeds and the internal pages that a chain of at most d links leads to
\* from a seed (the links of a page are known once it was extracted)
RECURSIVE Within(_)
Within(d) ==
    IF d = 0 THEN Range(urls_to_scan)
    ELSE LET near == Within(d - 1)
         IN near \cup {l \in InternalUrls :
                \E i \in DOMAIN extracted :
                    extracted[i].url \in near /\ l \in Range(extracted[i].links)}

\* C20: when a crawl has run to its end and no extraction failed, every
\* internal page within max_depth links of a seed is in visited_urls.
C20_Coverage ==
    /\ Finished
    /\ max_depth >= 0
    /\ \A i \in DOMAIN extracted : extracted[i].ok
    => Within(max_depth) \cap InternalUrls \subseteq visited_urls

====
